---- MODULE Spec2Model ----
(***************************************************************************)
(* VisionCut AI studio: the browser client (src/frontend/src/App.jsx) and  *)
(* the processing service it talks to.  The client's handlers are          *)
(* translated from App.jsx.  The service (Media Ingest, Job Orchestrator,  *)
(* Renderer, Download) is not part of the source tree; it is modelled from *)
(* the design document (spec.md sections 3 to 7).                          *)
(***************************************************************************)
EXTENDS Integers, Sequences, FiniteSets, Bags, TLC

\* ------------------------------------------------------------- bounds
\* Number of times the user presses "Start Editing".
MaxRuns == 2
\* Number of status responses that may be on the wire at once.
MaxInFlight == 2

Runs == 1..MaxRuns
ProjectIds == 1..MaxRuns

\* ---------------------------------------------------------- constants
\* Variant: the platform list loses its last entry.
PlatformsFieldShort == <<"youtube", "instagram">>

\* formData.append('platforms', 'youtube,instagram,tiktok')
PlatformsField == <<"youtube", "instagram", "tiktok">>
\* The four download buttons of the output section.
DownloadButtons == {"youtube", "instagram", "tiktok", "master"}
Platforms == {"youtube", "instagram", "tiktok"}
\* What the user may type into the prompt box (characters).
PromptChoices == {<< >>, <<" ", " ">>, <<" ", "a", " ">>}

Terminal == {"completed", "failed"}
NonTerminal == {"queued", "analyzing", "processing"}

VARIABLES
    \* ---- client, React state of App
    videoFile,      \* useState(null): FALSE is null
    prompt,         \* useState('')
    projectId,      \* useState(null): 0 is null
    status,         \* useState('')
    progress,       \* useState(0)
    outputs,        \* useState({youtube, instagram, tiktok, master})
    \* ---- client, one record per startEditing invocation
    nextRun,        \* the next invocation's number
    pc,             \* where the invocation stands
    form,           \* the FormData it posted
    projId,         \* its local const projId (0: not yet assigned)
    startReq,       \* the project id its start-processing request carried
    timer,          \* its setInterval handle: none | active | cleared
    pollArg,        \* the projId bound in its pollStatus closure
    inflight,       \* status responses on the wire (a bag)
    \* ---- client, observations
    shown,          \* the project the displayed status/progress came from
    termHandled,    \* how often the terminal branch of the poll ran, per run
    \* ---- service
    nextId,         \* Media Ingest's next project identifier
    project,        \* the platforms requested per project
    job             \* the Job record per project

clientVars == <<videoFile, prompt, projectId, status, progress, outputs,
                nextRun, pc, form, projId, startReq, timer, pollArg,
                inflight, shown, termHandled>>
serverVars == <<nextId, project, job>>
vars == <<videoFile, prompt, projectId, status, progress, outputs,
          nextRun, pc, form, projId, startReq, timer, pollArg,
          inflight, shown, termHandled, nextId, project, job>>

\* ------------------------------------------------------------ helpers
IsSpace(c) == c = " "

RECURSIVE TrimStart(_)
TrimStart(s) ==
    IF s = << >> THEN << >>
    ELSE IF IsSpace(Head(s)) THEN TrimStart(Tail(s)) ELSE s

RECURSIVE TrimEnd(_)
TrimEnd(s) ==
    IF s = << >> THEN << >>
    ELSE IF IsSpace(s[Len(s)]) THEN TrimEnd(SubSeq(s, 1, Len(s) - 1)) ELSE s

\* String.prototype.trim
Trim(s) == TrimEnd(TrimStart(s))

\* x || 0
OrZero(x) == IF x = 0 THEN 0 ELSE x

\* ------------------------------------------------------------ service
NoJob == [status |-> "none", progress |-> 0, artifacts |-> {},
          missing |-> {}, executions |-> 0]

\* Media Ingest: non-empty media and a non-empty trimmed prompt.
IngestValid(f) == f.video /\ Trim(f.prompt) # << >>

\* The comma-separated platform list, as a set.
ParsePlatforms(list) == {list[i] : i \in DOMAIN list}

Allocated(p) == p \in ProjectIds /\ p < nextId

\* Variant: the execution share is put on the wrong scale.
ProgressAfterRescaled(stage) == IF stage = "analysis" THEN 20 ELSE 6

\* Progress mapping: analysis contributes 0..20, execution 20..60.
ProgressAfter(stage) == IF stage = "analysis" THEN 20 ELSE 60

\* Rendering contributes 60..100, evenly across the requested platforms.
RenderProgress(done, requested) ==
    60 + (40 * Cardinality(done)) \div Cardinality(requested)

\* Variant: every start-processing call begins a new Job.
StartProcessingRestarts(j) ==
    [NoJob EXCEPT !.status = "queued", !.executions = j.executions + 1]

\* start-processing: a new Job only when the project has none.
StartProcessing(j) ==
    IF j.status = "none"
    THEN [NoJob EXCEPT !.status = "queued", !.executions = 1]
    ELSE j

\* The status-read operation: one snapshot of the Job record.
StatusRead(p) ==
    [status |-> job[p].status,
     progress_percentage |-> job[p].progress,
     output_video |-> job[p].artifacts]

\* The download operation.
Download(p, platform) ==
    IF Allocated(p) /\ platform \in job[p].artifacts THEN "artifact" ELSE "NotFound"

Init ==
    /\ videoFile = FALSE
    /\ prompt = << >>
    /\ projectId = 0
    /\ status = ""
    /\ progress = 0
    /\ outputs = [b \in DownloadButtons |-> {}]
    /\ nextRun = 1
    /\ pc = [r \in Runs |-> "idle"]
    /\ form = [r \in Runs |-> [video |-> FALSE, prompt |-> << >>, platforms |-> << >>]]
    /\ projId = [r \in Runs |-> 0]
    /\ startReq = [r \in Runs |-> 0]
    /\ timer = [r \in Runs |-> "none"]
    /\ pollArg = [r \in Runs |-> 0]
    /\ inflight = EmptyBag
    /\ shown = 0
    /\ termHandled = [r \in Runs |-> 0]
    /\ nextId = 1
    /\ project = [p \in ProjectIds |-> {}]
    /\ job = [p \in ProjectIds |-> NoJob]


\* ------------------------------------------------------------- client
\* handleVideoUpload: a chosen file is stored.
HandleVideoUpload ==
    /\ nextRun <= MaxRuns
    /\ videoFile' = TRUE
    /\ UNCHANGED <<prompt, projectId, status, progress, outputs, nextRun, pc,
                   form, projId, startReq, timer, pollArg, inflight, shown,
                   termHandled>>
    /\ UNCHANGED serverVars

\* onChange of the prompt input: setPrompt(e.target.value).
SetPrompt(s) ==
    /\ nextRun <= MaxRuns
    /\ prompt # s
    /\ prompt' = s
    /\ UNCHANGED <<videoFile, projectId, status, progress, outputs, nextRun, pc,
                   form, projId, startReq, timer, pollArg, inflight, shown,
                   termHandled>>
    /\ UNCHANGED serverVars

\* Variant: the prompt is tested without trim().
InputAcceptedNoTrim(file, text) == file /\ text # << >>

\* if (!videoFile) ... if (!prompt.trim()) ...
InputAccepted(file, text) == file /\ Trim(text) # << >>

\* startEditing up to its first await: validation, then the upload request.
StartEditing(r) ==
    /\ r = nextRun
    /\ pc[r] = "idle"
    /\ nextRun' = nextRun + 1
    /\ IF InputAccepted(videoFile, prompt)
       THEN /\ pc' = [pc EXCEPT ![r] = "uploading"]
            /\ form' = [form EXCEPT ![r] = [video |-> videoFile,
                                             prompt |-> prompt,
                                             platforms |-> PlatformsField]]
       ELSE /\ pc' = [pc EXCEPT ![r] = "rejected"]
            /\ form' = form
    /\ UNCHANGED <<videoFile, prompt, projectId, status, progress, outputs,
                   projId, startReq, timer, pollArg, inflight, shown,
                   termHandled>>
    /\ UNCHANGED serverVars

\* Variant: the URL is built from the projectId state of the render the
\* handler closed over, not from the local projId.
StartRequestIdStale(local) == projectId

\* The id put into the start-processing URL: the local projId.
StartRequestId(local) == local

\* The upload answers {project_id}: setProjectId(projId), then the
\* start-processing request is posted.
UploadReturns(r) ==
    /\ pc[r] = "uploading"
    /\ IngestValid(form[r])
    /\ nextId \in ProjectIds
    /\ project' = [project EXCEPT ![nextId] = ParsePlatforms(form[r].platforms)]
    /\ nextId' = nextId + 1
    /\ projId' = [projId EXCEPT ![r] = nextId]
    /\ projectId' = nextId
    /\ startReq' = [startReq EXCEPT ![r] = StartRequestId(nextId)]
    /\ pc' = [pc EXCEPT ![r] = "starting"]
    /\ UNCHANGED <<videoFile, prompt, status, progress, outputs, nextRun, form,
                   timer, pollArg, inflight, shown, termHandled, job>>

\* The upload request throws (network error or rejection): the catch block.
UploadFails(r) ==
    /\ pc[r] = "uploading"
    /\ pc' = [pc EXCEPT ![r] = "error"]
    /\ UNCHANGED <<videoFile, prompt, projectId, status, progress, outputs,
                   nextRun, form, projId, startReq, timer, pollArg, inflight,
                   shown, termHandled>>
    /\ UNCHANGED serverVars

\* The service's handling of a start-processing call for project p.
ServeStart(p) == job' = [job EXCEPT ![p] = StartProcessing(job[p])]

\* start-processing answers: setStatus('processing'), pollStatus(projId)
\* creates the interval.
StartReturns(r) ==
    /\ pc[r] = "starting"
    /\ Allocated(startReq[r])
    /\ ServeStart(startReq[r])
    /\ status' = "processing"
    /\ shown' = projId[r]
    /\ pollArg' = [pollArg EXCEPT ![r] = projId[r]]
    /\ timer' = [timer EXCEPT ![r] = "active"]
    /\ pc' = [pc EXCEPT ![r] = "polling"]
    /\ UNCHANGED <<videoFile, prompt, projectId, progress, outputs, nextRun,
                   form, projId, startReq, inflight, termHandled, nextId, project>>

\* The start-processing request throws, before or after the service acted
\* on it: the catch block.
StartFails(r) ==
    /\ pc[r] = "starting"
    /\ pc' = [pc EXCEPT ![r] = "error"]
    /\ \/ UNCHANGED job
       \/ /\ Allocated(startReq[r])
          /\ ServeStart(startReq[r])
    /\ UNCHANGED <<videoFile, prompt, projectId, status, progress, outputs,
                   nextRun, form, projId, startReq, timer, pollArg, inflight,
                   shown, termHandled, nextId, project>>

\* A tick of the interval: the status request goes out and the service
\* takes its snapshot.
PollTick(r) ==
    /\ timer[r] = "active"
    /\ BagCardinality(inflight) < MaxInFlight
    /\ inflight' = inflight (+) SetToBag({[run |-> r, data |-> StatusRead(pollArg[r])]})
    /\ UNCHANGED <<videoFile, prompt, projectId, status, progress, outputs,
                   nextRun, pc, form, projId, startReq, timer, pollArg, shown,
                   termHandled>>
    /\ UNCHANGED serverVars

\* Variant: the failed branch forgets clearInterval.
ClearsIntervalOnCompletedOnly(data) == data.status = "completed"

\* data.status === 'completed' or 'failed': clearInterval(interval).
ClearsInterval(data) == data.status = "completed" \/ data.status = "failed"

\* A status response arrives: the body of the try block of the callback.
PollResponse(m) ==
    /\ BagIn(m, inflight)
    /\ LET r == m.run
           data == m.data
       IN /\ status' = data.status
          /\ progress' = OrZero(data.progress_percentage)
          /\ shown' = pollArg[r]
          /\ outputs' = IF data.status = "completed"
                        THEN [b \in DownloadButtons |-> data.output_video]
                        ELSE outputs
          /\ timer' = IF ClearsInterval(data)
                      THEN [timer EXCEPT ![r] = "cleared"]
                      ELSE timer
          /\ termHandled' = IF data.status \in Terminal
                            THEN [termHandled EXCEPT ![r] = @ + 1]
                            ELSE termHandled
    /\ inflight' = inflight (-) SetToBag({m})
    /\ UNCHANGED <<videoFile, prompt, projectId, nextRun, pc, form, projId,
                   startReq, pollArg>>
    /\ UNCHANGED serverVars

\* A status request throws: the catch block logs and the interval goes on.
PollError(m) ==
    /\ BagIn(m, inflight)
    /\ inflight' = inflight (-) SetToBag({m})
    /\ UNCHANGED <<videoFile, prompt, projectId, status, progress, outputs,
                   nextRun, pc, form, projId, startReq, timer, pollArg, shown,
                   termHandled>>
    /\ UNCHANGED serverVars

\* Variant: the output section is shown whenever outputs.master is set.
OutputSectionVisibleAnyStatus == outputs["master"] # {}

\* {status === 'completed' && outputs.master && ...}
OutputSectionVisible == status = "completed" /\ outputs["master"] # {}

\* A download button for the platform is on the page.
DownloadExposed(platform) == platform \in DownloadButtons /\ OutputSectionVisible

\* downloadVideo: the request it opens (none without a projectId).
DownloadRequest(platform) ==
    IF projectId = 0 THEN <<0, platform>> ELSE <<projectId, platform>>


\* ------------------------------------------------- service, Job steps
\* Another start-processing call for an existing project (the operation
\* takes nothing but a project identifier).
RepeatStart(p) ==
    /\ Allocated(p)
    /\ ServeStart(p)
    /\ UNCHANGED clientVars
    /\ UNCHANGED <<nextId, project>>

\* queued -> analyzing, on EditPlan request start.
BeginAnalysis(p) ==
    /\ job[p].status = "queued"
    /\ job' = [job EXCEPT ![p].status = "analyzing"]
    /\ UNCHANGED clientVars
    /\ UNCHANGED <<nextId, project>>

\* analyzing -> processing, on EditPlan availability: analysis is worth 20.
PlanAvailable(p) ==
    /\ job[p].status = "analyzing"
    /\ job' = [job EXCEPT ![p].status = "processing",
                          ![p].progress = ProgressAfter("analysis")]
    /\ UNCHANGED clientVars
    /\ UNCHANGED <<nextId, project>>

\* The Edit Executor has applied the plan: execution is worth 20..60.
ExecuteDone(p) ==
    /\ job[p].status = "processing"
    /\ job[p].progress = ProgressAfter("analysis")
    /\ job' = [job EXCEPT ![p].progress = ProgressAfter("execution")]
    /\ UNCHANGED clientVars
    /\ UNCHANGED <<nextId, project>>

\* The Renderer's fan-out is joined and merged into the Job by its single
\* writer: an artifact for every platform that encoded, a missing artifact
\* for every RenderFailure; completed only when every requested platform
\* has an artifact, failed otherwise.
RenderFanOut(p, produced) ==
    /\ job[p].status = "processing"
    /\ job[p].progress = ProgressAfter("execution")
    /\ produced \subseteq project[p]
    /\ job' = [job EXCEPT
                 ![p].artifacts = produced,
                 ![p].missing = project[p] \ produced,
                 ![p].progress = RenderProgress(produced, project[p]),
                 ![p].status = IF produced = project[p] THEN "completed" ELSE "failed"]
    /\ UNCHANGED clientVars
    /\ UNCHANGED <<nextId, project>>

\* Variant: the error path marks the Job failed whatever its status.
StageErrorAnyStatus(p) ==
    /\ job[p].status # "none"
    /\ job' = [job EXCEPT ![p].status = "failed"]
    /\ UNCHANGED clientVars
    /\ UNCHANGED <<nextId, project>>

\* An unrecoverable error at any stage (PlanIntegrityError): failed, and
\* no further progress update.
StageError(p) ==
    /\ job[p].status \in NonTerminal
    /\ job' = [job EXCEPT ![p].status = "failed"]
    /\ UNCHANGED clientVars
    /\ UNCHANGED <<nextId, project>>

\* The Orchestrator's steps, with the render outcomes to explore.
JobStepWith(outcomes) ==
    \E p \in ProjectIds :
        \/ BeginAnalysis(p)
        \/ PlanAvailable(p)
        \/ ExecuteDone(p)
        \/ \E produced \in outcomes : RenderFanOut(p, produced)
        \/ StageError(p)

JobStep == JobStepWith(SUBSET Platforms)

\* The user, the client's handlers and callbacks, and other callers of
\* start-processing.
ClientStep ==
    \/ HandleVideoUpload
    \/ \E s \in PromptChoices : SetPrompt(s)
    \/ \E r \in Runs : StartEditing(r)
    \/ \E r \in Runs : UploadReturns(r)
    \/ \E r \in Runs : UploadFails(r)
    \/ \E r \in Runs : StartReturns(r)
    \/ \E r \in Runs : StartFails(r)
    \/ \E r \in Runs : PollTick(r)
    \/ \E m \in BagToSet(inflight) : PollResponse(m)
    \/ \E m \in BagToSet(inflight) : PollError(m)
    \/ \E p \in ProjectIds : RepeatStart(p)

Next == ClientStep \/ JobStep

Spec == Init /\ [][Next]_vars


\* ------------------------------------------------------------- claims
InFlightFor(r) ==
    LET ms == {m \in BagToSet(inflight) : m.run = r}
        RECURSIVE Sum(_)
        Sum(S) == IF S = {} THEN 0
                  ELSE LET m == CHOOSE x \in S : TRUE
                       IN CopiesIn(m, inflight) + Sum(S \ {m})
    IN Sum(ms)

\* C1: an edit request with no video file, or with a prompt that is empty
\* after trimming, is rejected at once: the invocation ends without an
\* upload request, a project identifier, a start-processing request or a
\* poll timer, and projectId, status and progress (and the service's state)
\* are left as they were.
C1_InvalidInputRejected ==
    /\ [](\A r \in Runs :
            pc[r] = "rejected" =>
                /\ projId[r] = 0
                /\ startReq[r] = 0
                /\ timer[r] = "none"
                /\ InFlightFor(r) = 0)
    /\ [][\A r \in Runs :
            (pc[r] = "idle" /\ pc'[r] # "idle"
                /\ (~videoFile \/ Trim(prompt) = << >>))
            => /\ pc'[r] = "rejected"
               /\ UNCHANGED <<projectId, status, progress, outputs, form,
                              inflight, timer, nextId, project, job>>]_vars

C1_Witness ==
    \E r \in Runs :
        /\ pc[r] = "rejected"
        /\ videoFile
        /\ prompt = <<" ", " ">>
        /\ nextId = 1

AllowedTransitions ==
    {<<"none", "queued">>, <<"queued", "analyzing">>,
     <<"analyzing", "processing">>, <<"processing", "completed">>,
     <<"queued", "failed">>, <<"analyzing", "failed">>,
     <<"processing", "failed">>}

\* C2: the status returned by the status operation only moves along
\* queued -> analyzing -> processing -> completed, or from a non-terminal
\* status to failed, and never leaves completed or failed.
C2_StatusTransitions ==
    [][\A p \in ProjectIds :
          StatusRead(p).status' # StatusRead(p).status
          => <<StatusRead(p).status, StatusRead(p).status'>> \in AllowedTransitions]_vars

C2_Witness ==
    \E p, q \in ProjectIds :
        /\ StatusRead(p).status = "completed"
        /\ StatusRead(q).status = "failed"

C4_OneExecution ==
    /\ [](\A p \in ProjectIds :
            job[p].executions = IF job[p].status = "none" THEN 0 ELSE 1)
    /\ [][\A p \in ProjectIds :
            /\ job[p].status # "none" =>
                  /\ job'[p].executions = job[p].executions
                  /\ job'[p].status = "queued" => job[p].status = "queued"
            /\ (RepeatStart(p) /\ job[p].status # "none") => job' = job
            /\ \A r \in Runs :
                  (StartReturns(r) /\ startReq[r] = p /\ job[p].status # "none")
                  => job' = job]_vars

\* A Job started by an earlier call is running while the client's own
\* start-processing request for the same project is still on its way.
C4_Witness ==
    \E r \in Runs :
        /\ pc[r] = "starting"
        /\ job[startReq[r]].status = "processing"
        /\ job[startReq[r]].executions = 1

\* C5: a completed Job has progress 100 and an artifact for every platform
\* requested at upload (youtube, instagram and tiktok for this client), and
\* a displayed status of completed comes with a displayed progress of 100.
C5_CompletedHasAllArtifacts ==
    /\ \A p \in ProjectIds :
          job[p].status = "completed" =>
              /\ job[p].progress = 100
              /\ project[p] \subseteq job[p].artifacts
              /\ \A platform \in {"youtube", "instagram", "tiktok"} :
                    Download(p, platform) = "artifact"
    /\ status = "completed" => progress = 100

C5_Witness ==
    \E p \in ProjectIds :
        /\ job[p].status = "completed"
        /\ status = "completed"
        /\ shown = p
        /\ OutputSectionVisible

C7_RequestOrder ==
    \A r \in Runs :
        /\ pc[r] \in {"idle", "rejected", "uploading"} =>
              /\ projId[r] = 0
              /\ startReq[r] = 0
        /\ pc[r] \in {"starting", "polling"} =>
              /\ Allocated(projId[r])
              /\ startReq[r] = projId[r]
        /\ startReq[r] # 0 => startReq[r] = projId[r]
        /\ (timer[r] # "none" \/ InFlightFor(r) > 0 \/ termHandled[r] > 0) =>
              /\ pc[r] = "polling"
              /\ pollArg[r] = projId[r]
              /\ job[projId[r]].status # "none"
        /\ pc[r] # "polling" =>
              /\ timer[r] = "none"
              /\ InFlightFor(r) = 0

C7_Witness ==
    \E r, q \in Runs :
        /\ pc[r] = "polling"
        /\ InFlightFor(r) > 0
        /\ projId[r] = 2
        /\ pc[q] = "error"
        /\ projId[q] = 1

\* The liveness check explores two render outcomes, every platform encoded
\* or the instagram encode failed; whether polling stops does not depend on
\* which artifacts a failed Job has.
LiveOutcomes == {Platforms, Platforms \ {"instagram"}}

LiveNext == ClientStep \/ JobStepWith(LiveOutcomes)

\* The conditions under which the code's scheduling is fair: a Job that
\* can take a step takes one, an active interval keeps ticking, and status
\* requests succeed again and again.
Fairness ==
    /\ WF_vars(JobStepWith(LiveOutcomes))
    /\ \A r \in Runs : WF_vars(PollTick(r))
    /\ SF_vars(\E m \in BagToSet(inflight) : PollResponse(m))

LiveSpec == Init /\ [][LiveNext]_vars /\ Fairness

\* C8: a timer is cleared exactly when a response for its project reports
\* completed or failed, after which no new status request is sent for it;
\* until then it stays active and its next tick sends a request; and under
\* the fairness above every active timer is eventually cleared.
C8_PollingEndsAtTerminal ==
    /\ [](\A r \in Runs :
            /\ termHandled[r] > 0 => timer[r] = "cleared"
            /\ (pc[r] = "polling" /\ termHandled[r] = 0) => timer[r] = "active"
            /\ (timer[r] = "active" /\ BagCardinality(inflight) < MaxInFlight)
                  => ENABLED PollTick(r))
    /\ [][\A r \in Runs :
            /\ timer[r] = "cleared" => InFlightFor(r)' <= InFlightFor(r)
            /\ (timer[r] = "active" /\ timer'[r] # "active") =>
                  \E m \in BagToSet(inflight) :
                      /\ m.run = r
                      /\ m.data.status \in Terminal
                      /\ inflight' = inflight (-) SetToBag({m})]_vars
    /\ \A r \in Runs : (timer[r] = "active") ~> (timer[r] = "cleared")

C8_Witness ==
    \E r \in Runs :
        /\ timer[r] = "cleared"
        /\ termHandled[r] = 1
        /\ status = "failed"
        /\ InFlightFor(r) = 0

\* C9 (as claimed): at most one poll timer is active, and what is displayed
\* describes the project stored in projectId.
C9_OneTimerOneProject ==
    /\ Cardinality({r \in Runs : timer[r] = "active"}) <= 1
    /\ shown # 0 => shown = DownloadRequest("master")[1]

\* C10 (as claimed): once a terminal status was recorded for a project, the
\* display of that project is never non-terminal again, and the terminal
\* handling has run exactly once.
C10_TerminalHandledOnce ==
    \A r \in Runs :
        /\ termHandled[r] <= 1
        /\ (termHandled[r] > 0 /\ shown = pollArg[r]) => status \in Terminal

====
